---- MODULE Spec2Model ----
(***************************************************************************)
(* Daily Hustle Generator: the Home component (src/src/app/page.tsx) and   *)
(* the generation flow (src/src/ai/flows/generate-daily-hustle-ideas.ts).  *)
(*                                                                         *)
(* Strings of the program are sequences of chunks (a chunk is a TLA+       *)
(* string), so that concatenation is \o and includes() is a search.        *)
(***************************************************************************)
EXTENDS Integers, Sequences, FiniteSets, TLC

(* ------------------------------ bounds --------------------------------- *)
\* longest ideas array the provider returns
MaxIdeas == 2
\* longest saved list explored
MaxSaved == 2
\* Date.now() ranges over 1..MaxTime
MaxTime == 2

(* ------------------------------ strings -------------------------------- *)
Str(c) == <<c>>

Range(s) == {s[i] : i \in 1..Len(s)}

\* String.prototype.includes, at chunk granularity
Includes(s, needle) == \E i \in 1..Len(s) : <<s[i]>> = needle

(* ------------------------------- JSON ---------------------------------- *)
\* JSON text is a sequence of tokens; every token carries a chunk sequence.
Punct(c) == [k |-> "punct", v |-> <<c>>]
StrTok(s) == [k |-> "str", v |-> s]
LitTok(c) == [k |-> "lit", v |-> <<c>>]

\* JSON values, tagged; the tag field sorts before the payload field.
JNull == [t |-> "null", v |-> <<>>]
JNum(c) == [t |-> "num", v |-> <<c>>]
JStr(s) == [t |-> "str", v |-> s]
JArr(elems) == [t |-> "arr", v |-> elems]
JObj(members) == [t |-> "obj", v |-> members]
Member(key, val) == [key |-> key, val |-> val]

JsonLiterals == {"null", "42"}

\* value of a literal token
LitValue(c) == IF c = "null" THEN JNull ELSE JNum(c)

ParseOk(val, rest) == [ok |-> TRUE, val |-> val, rest |-> rest]
ParseFail == [ok |-> FALSE, val |-> JNull, rest |-> <<>>]

RECURSIVE ParseValue(_)
RECURSIVE ParseElements(_, _)
RECURSIVE ParseMembers(_, _)

\* value := string | literal | "[" elements "]" | "{" members "}"
ParseValue(toks) ==
  IF toks = <<>> THEN ParseFail
  ELSE LET h == Head(toks)
           r == Tail(toks)
       IN CASE h.k = "str" -> ParseOk(JStr(h.v), r)
            [] h.k = "lit" ->
                 IF h.v[1] \in JsonLiterals THEN ParseOk(LitValue(h.v[1]), r)
                 ELSE ParseFail
            [] h = Punct("[") ->
                 IF r # <<>> /\ Head(r) = Punct("]")
                 THEN ParseOk(JArr(<<>>), Tail(r))
                 ELSE ParseElements(r, <<>>)
            [] h = Punct("{") ->
                 IF r # <<>> /\ Head(r) = Punct("}")
                 THEN ParseOk(JObj(<<>>), Tail(r))
                 ELSE ParseMembers(r, <<>>)
            [] OTHER -> ParseFail

\* elements := value ("," value)* "]"
ParseElements(toks, acc) ==
  LET e == ParseValue(toks)
  IN IF ~e.ok \/ e.rest = <<>> THEN ParseFail
     ELSE IF Head(e.rest) = Punct("]")
          THEN ParseOk(JArr(Append(acc, e.val)), Tail(e.rest))
     ELSE IF Head(e.rest) = Punct(",")
          THEN ParseElements(Tail(e.rest), Append(acc, e.val))
     ELSE ParseFail

\* members := string ":" value ("," string ":" value)* "}"
ParseMembers(toks, acc) ==
  IF Len(toks) < 2 \/ toks[1].k # "str" \/ toks[2] # Punct(":") THEN ParseFail
  ELSE LET e == ParseValue(SubSeq(toks, 3, Len(toks)))
           m == Member(toks[1].v, e.val)
       IN IF ~e.ok \/ e.rest = <<>> THEN ParseFail
          ELSE IF Head(e.rest) = Punct("}")
               THEN ParseOk(JObj(Append(acc, m)), Tail(e.rest))
          ELSE IF Head(e.rest) = Punct(",")
               THEN ParseMembers(Tail(e.rest), Append(acc, m))
          ELSE ParseFail

\* JSON.parse: the value, or a SyntaxError
JsonParse(text) ==
  LET p == ParseValue(text)
  IN IF p.ok /\ p.rest = <<>> THEN [threw |-> FALSE, val |-> p.val]
     ELSE [threw |-> TRUE, val |-> JNull]

RECURSIVE JoinTokens(_)
\* the token lists of `parts`, separated by commas
JoinTokens(parts) ==
  IF parts = <<>> THEN <<>>
  ELSE IF Len(parts) = 1 THEN parts[1]
  ELSE parts[1] \o <<Punct(",")>> \o JoinTokens(Tail(parts))

StringifyStrings(ss) ==
  <<Punct("[")>> \o JoinTokens([i \in 1..Len(ss) |-> <<StrTok(ss[i])>>]) \o <<Punct("]")>>

\* JSON.stringify of one Idea: properties in insertion order
StringifyIdeaMut(idea) ==
  <<Punct("{"), StrTok(Str("id")), Punct(":"), StrTok(idea.id), Punct(","),
    StrTok(Str("text")), Punct(":"), StrTok(idea.text), Punct(","),
    StrTok(Str("websites")), Punct(":")>> \o StringifyStrings(<<>>) \o <<Punct("}")>>

StringifyIdea(idea) ==
  <<Punct("{"), StrTok(Str("id")), Punct(":"), StrTok(idea.id), Punct(","),
    StrTok(Str("text")), Punct(":"), StrTok(idea.text), Punct(","),
    StrTok(Str("websites")), Punct(":")>> \o StringifyStrings(idea.websites) \o <<Punct("}")>>

\* JSON.stringify(savedIdeas)
JsonStringify(ideas) ==
  <<Punct("[")>> \o JoinTokens([i \in 1..Len(ideas) |-> StringifyIdea(ideas[i])]) \o <<Punct("]")>>

(* ------------------------------- URLs ---------------------------------- *)
\* A URL string is cut into chunks so that a leading "http", every ":" and
\* every "//" are chunks of their own: "https://upwork.com" is
\* <<"http", "s", ":", "//", "upwork.com">> and "httpbin.org" is
\* <<"http", "bin.org">>.

\* chunks of letters and dots: they may stand in a scheme and in a host
WordChunks == {"http", "s", "x", "ftp", "javascript", "bin.org", "example.com",
               "upwork.com"}
\* chunks that may stand in a host ("not a url" has spaces and may not)
HostChunks == WordChunks \cup {"alert(1)"}

\* the special schemes of the URL standard that the model writes
SpecialSchemes == {<<"http">>, <<"http", "s">>, <<"ftp">>}

UrlFail == [ok |-> FALSE, protocol |-> <<>>, hostname |-> <<>>]
UrlOk(scheme, host) == [ok |-> TRUE, protocol |-> scheme \o <<":">>, hostname |-> host]

\* position of the first ":" chunk, 0 when there is none
ColonAt(s) ==
  IF \E i \in 1..Len(s) : s[i] = ":"
  THEN CHOOSE i \in 1..Len(s) : s[i] = ":" /\ \A j \in 1..(i - 1) : s[j] # ":"
  ELSE 0

\* how many chunks at the start of s are host chunks
HostLen(s) ==
  CHOOSE n \in 0..Len(s) :
    /\ \A i \in 1..n : s[i] \in HostChunks
    /\ n = Len(s) \/ s[n + 1] \notin HostChunks

\* host [":" port] [path]: the host may be empty only for a scheme that is not
\* special, a port is made of digits (no chunk of the model is), and a path
\* starts with a slash
ParseAuthority(scheme, a, special) ==
  LET n == HostLen(a)
      after == SubSeq(a, n + 1, Len(a))
  IN IF n = 0 /\ special THEN UrlFail
     ELSE IF after = <<>> \/ after[1] = "//" THEN UrlOk(scheme, SubSeq(a, 1, n))
     ELSE IF after[1] = ":" /\ (Len(after) = 1 \/ after[2] = "//")
          THEN UrlOk(scheme, SubSeq(a, 1, n))
     ELSE UrlFail

\* new URL(s), without a base: a string with no scheme throws a TypeError; a
\* special scheme needs a host, with or without the two slashes; any other
\* scheme takes a host after "//" and an opaque path otherwise
NewURL(s) ==
  LET p == ColonAt(s)
      scheme == SubSeq(s, 1, p - 1)
      rest == SubSeq(s, p + 1, Len(s))
      slashes == rest # <<>> /\ rest[1] = "//"
  IN IF p < 2 \/ \E i \in 1..(p - 1) : s[i] \notin WordChunks THEN UrlFail
     ELSE IF scheme \in SpecialSchemes
          THEN ParseAuthority(scheme, IF slashes THEN Tail(rest) ELSE rest, TRUE)
     ELSE IF slashes THEN ParseAuthority(scheme, Tail(rest), FALSE)
     ELSE UrlOk(scheme, <<>>)

GoodUrl == <<"http", "s", ":", "//", "upwork.com">>
BareHost == <<"example.com">>
HttpHost == <<"http", "bin.org">>
NotAUrl == <<"not a url">>
HttpxUrl == <<"http", "x", ":", "//", "example.com">>
JavascriptUrl == <<"javascript", ":", "alert(1)">>
FtpUrl == <<"ftp", ":", "//", "example.com">>

\* website strings a stored list may hold
WebsiteInputs == {GoodUrl, BareHost, HttpHost, NotAUrl, HttpxUrl, JavascriptUrl, FtpUrl}

\* String.prototype.startsWith for a prefix that is a chunk
StartsWith(s, chunk) == s # <<>> /\ s[1] = chunk

HttpsPrefix == <<"http", "s", ":", "//">>

\* renderWebsiteLinks, one element of websites.map: an anchor to validUrl.href
\* showing the hostname, or the string as text when new URL throws
renderWebsiteLink(url) ==
  LET u == NewURL(IF StartsWith(url, "http") THEN url ELSE HttpsPrefix \o url)
  IN IF u.ok
     THEN [anchor |-> TRUE, protocol |-> u.protocol, hostname |-> u.hostname,
           text |-> u.hostname]
     ELSE [anchor |-> FALSE, protocol |-> <<>>, hostname |-> <<>>,
           text |-> url \o <<" (invalid link)">>]

\* a url check that accepts every string
ZodUrlMut(s) == TRUE

\* z.string().url()
ZodUrl(s) == NewURL(s).ok

(* --------------------------- provider and flow ------------------------- *)
Texts == {Str("Proofread essays")}
WebsiteLists == {<<GoodUrl>>, <<BareHost>>}

\* one element of the provider's ideas array
RawIdeas == [idea : Texts, suggestedWebsites : WebsiteLists]

SeqsUpTo(S, n) == UNION {[1..k -> S] : k \in 0..n}

BlockedMessage == <<"Generation blocked: ", "prompt was blocked", ".">>
NetworkMessage == <<"fetch failed">>
SchemaMessage == <<"Schema validation failed. Parse Errors: ", "Invalid url">>

\* What the external provider does with one prompt call: it fails (network
\* error, safety block), or it answers with null, with an object that has no
\* ideas, with ideas that are no array, or with an array of ideas.
ProviderBehaviours ==
  {[kind |-> k, ideas |-> <<>>] :
      k \in {"networkError", "blocked", "null", "noIdeas", "ideasNotArray"}}
  \cup {[kind |-> "ideas", ideas |-> l] : l \in SeqsUpTo(RawIdeas, MaxIdeas)}

NoCause == [present |-> FALSE, ideas |-> <<>>]

\* a returned value {ideas: ...}; isArray tells whether ideas is an array
Returned(isArray, ideas) ==
  [threw |-> FALSE, message |-> <<>>, cause |-> NoCause,
   value |-> [isArray |-> isArray, ideas |-> ideas]]

\* a thrown Error(message, {cause})
Thrown(message, cause) ==
  [threw |-> TRUE, message |-> message, cause |-> cause,
   value |-> [isArray |-> FALSE, ideas |-> <<>>]]

\* GenerateDailyHustleIdeasInputSchema
InputSchemaOk(input) == input.targetAmount > 0

OutputSchemaOkMut(value) == TRUE

\* GenerateDailyHustleIdeasOutputSchema: ideas is an array of
\* {idea: string, suggestedWebsites: url[]}
OutputSchemaOk(value) ==
  /\ value.isArray
  /\ \A i \in 1..Len(value.ideas) :
       \A j \in 1..Len(value.ideas[i].suggestedWebsites) :
          ZodUrl(value.ideas[i].suggestedWebsites[j])

\* const {output} = await prompt(input)
PromptCall(b) ==
  CASE b.kind = "networkError" -> Thrown(NetworkMessage, NoCause)
    [] b.kind = "blocked" -> Thrown(BlockedMessage, NoCause)
    [] OTHER -> Returned(b.kind = "ideas", b.ideas)

\* the flow body without its guard on a missing output
FlowBodyMut(b) ==
  LET p == PromptCall(b)
  IN IF p.threw THEN p
     ELSE Returned(b.kind = "ideas", b.ideas)

\* the flow body: if (!output || !output.ideas) return {ideas: []}; return output
FlowBody(b) ==
  LET p == PromptCall(b)
  IN IF p.threw THEN p
     ELSE IF b.kind \in {"null", "noIdeas"} THEN Returned(TRUE, <<>>)
     ELSE Returned(b.kind = "ideas", b.ideas)

\* ai.defineFlow({inputSchema, outputSchema}, body): the body between the two
\* schema checks
generateDailyHustleIdeasFlow(input, b) ==
  IF ~InputSchemaOk(input) THEN Thrown(SchemaMessage, NoCause)
  ELSE LET r == FlowBody(b)
       IN IF r.threw THEN r
          ELSE IF OutputSchemaOk(r.value) THEN r
          ELSE Thrown(SchemaMessage, NoCause)

FailedMessage == <<"Failed to generate hustle ideas.">>

\* the wrapper with a catch block that swallows the fault
generateDailyHustleIdeasMut(input, b) ==
  LET r == generateDailyHustleIdeasFlow(input, b)
  IN IF r.threw THEN Returned(TRUE, <<>>) ELSE r

\* try { return await flow(input) } catch { throw new Error("Failed ...") }
generateDailyHustleIdeas(input, b) ==
  LET r == generateDailyHustleIdeasFlow(input, b)
  IN IF r.threw THEN Thrown(FailedMessage, NoCause) ELSE r

(* ------------------------------ the form ------------------------------- *)
\* target amounts in thousandths of a dollar; NaN is what z.coerce.number
\* makes of an input that is no number
NaN == [isNumber |-> FALSE, n |-> 0]
Num(n) == [isNumber |-> TRUE, n |-> n]
MinTarget == 10

SkillInputs == {<<>>, Str("writing")}
TargetInputs == {NaN, Num(0), Num(5), Num(3000)}
FormInputs == [userSkills : SkillInputs, targetAmount : TargetInputs]

\* a form schema that checks the skills only
FormErrorsMut(values) == {f \in {"userSkills"} : Len(values.userSkills) < 1}

\* formSchema: the set of fields that fail validation
FormErrors(values) ==
  {f \in {"userSkills"} : Len(values.userSkills) < 1}
  \cup {f \in {"targetAmount"} :
          \/ ~values.targetAmount.isNumber
          \/ values.targetAmount.n < MinTarget
          \/ values.targetAmount.n <= 0}

\* the values handed to onSubmit after coercion
Coerced(values) ==
  [userSkills |-> values.userSkills, targetAmount |-> values.targetAmount.n]

(* ---------------------------- the component ---------------------------- *)
VARIABLES
  storage,         \* localStorage key 'savedHustleIdeas': present?, value
  savedIdeas,      \* useState: saved ideas (latest state)
  generatedIdeas,  \* useState: generated ideas (latest state)
  isLoading,       \* useState: busy flag (latest state)
  rendered,        \* the state values the last render closed over
  dirty,           \* state hooks set since the last render
  effects,         \* passive effects of the last commit still to run
  phase,           \* "unmounted" | "mounted"
  crashed,         \* an error escaped a handler or an effect
  toast,           \* the notification the last step emitted, if any
  fieldErrors,     \* inline form errors
  requests,        \* calls to generateDailyHustleIdeas not yet resumed
  highlightedOffer, \* useState of the page with affiliate offers: offer | null
  now,             \* Date.now()
  boot,            \* history: the stored value the current mount started from
  reloaded,        \* history: the saved list the last reload left behind
  lastDone,        \* history: how the request that just finished ended
  lastRemoved      \* history: the removal the user made last, and the list before it

vars == <<storage, savedIdeas, generatedIdeas, isLoading, rendered, dirty,
          effects, phase, crashed, toast, fieldErrors, requests, now, boot,
          reloaded, lastDone, lastRemoved, highlightedOffer>>

NoKey == [present |-> FALSE, value |-> <<>>]
Stored(text) == [present |-> TRUE, value |-> text]

NoToast == [title |-> "", description |-> <<>>, variant |-> ""]
Toast(title, description, variant) ==
  [title |-> title, description |-> description, variant |-> variant]

GenericDescription == <<"An error occurred while generating ideas. Please try again.">>
BlockedDescription == <<"The request was blocked by safety settings. Try modifying your input.">>
InvalidUrlsDescription == <<"The AI returned some invalid website links. We're showing the ideas anyway.">>
FormatDescription == <<"Failed to generate ideas. Unexpected response format.">>

Snapshot(saved, generated, loading) ==
  [savedIdeas |-> saved, generatedIdeas |-> generated, isLoading |-> loading]

Ids(ideas) == [i \in 1..Len(ideas) |-> ideas[i].id]

(* --- the affiliate offers ---------------------------------------------- *)
\* useState<AffiliateLink | null>(null)
NoOffer == [url |-> "", title |-> ""]

\* the static list of the page that shows offers (url and title of each)
affiliateLinks ==
  <<[url |-> "https://16aaa2yclbv-au53ybvbkpvre4.hop.clickbank.net",
    title |-> "Air Fountain: Turn Air Into Water"],
   [url |-> "https://728475ymtb0y0pads6p-bgl68r.hop.clickbank.net",
    title |-> "Nano-Ease: Pain Relief Technology"],
   [url |-> "https://36db9-ueu3s13n5pmkpeeiso7d.hop.clickbank.net",
    title |-> "Exclusive CPA Offer"],
   [url |-> "https://8d0b45-8xdv41mboagolp12gy7.hop.clickbank.net",
    title |-> "DIY 3D Solar Panel Guide"],
   [url |-> "https://e7164-tln215cw95vcsi4p1wes.hop.clickbank.net",
    title |-> "High-Converting Personal Development Offer"],
   [url |-> "https://641337uhqcsx1n69ozpo1phz2i.hop.clickbank.net",
    title |-> "Learn to Sketch Easily"],
   [url |-> "https://bbad395evcw1ftekz1jrrzwzaz.hop.clickbank.net",
    title |-> "Magical Tactics (Proven tactics to attract women)"],
   [url |-> "https://4fb895ug-ds21r4jy6pio7jd0x.hop.clickbank.net",
    title |-> "Pure Natural Manifestation"],
   [url |-> "https://3c991-wdmdu8aqejm820lmi95l.hop.clickbank.net",
    title |-> "Reality Engineering Code"],
   [url |-> "https://d54979t9xby57n1g76qlhe1y7b.hop.clickbank.net",
    title |-> "The Pharaoh's Secret"],
   [url |-> "https://192adavllar32q8no1xdx6w-iw.hop.clickbank.net",
    title |-> "Instant Wordpress Theme Matcher"],
   [url |-> "https://456428sgz2t30y054d4p6met0w.hop.clickbank.net",
    title |-> "Fast & Easy Commissions (2025)"],
   [url |-> "https://51eea26ds1y1dk1912lfs6glpc.hop.clickbank.net",
    title |-> "Infinite Manifestation Code (2025)"],
   [url |-> "https://fa3b36whxao5emc09gumeo5n43.hop.clickbank.net",
    title |-> "Vitrafoxin"],
   [url |-> "https://96d16a5jpzq4cldn0pcgqj0s9c.hop.clickbank.net",
    title |-> "Total Money Magnetism"],
   [url |-> "https://4f49e3vlu-218y25phh1gw5s8y.hop.clickbank.net",
    title |-> "Fast Wealth"],
   [url |-> "https://d0417--iv1vy0r4rz3svxk0z36.hop.clickbank.net",
    title |-> "Live Chat Jobs"],
   [url |-> "https://a7677a1gtzx60rcg0btzvhkarr.hop.clickbank.net",
    title |-> "Get Paid To Use Social Media"],
   [url |-> "https://d5f2a14cuzy09yfntbocryx-3v.hop.clickbank.net",
    title |-> "Cellphone Cash"],
   [url |-> "https://07a79azir8wxbw8am7hyueuo35.hop.clickbank.net",
    title |-> "Click Earners: Virtual Online Assistant"],
   [url |-> "https://8b2995x9y1w85xa2wlodv7fle0.hop.clickbank.net",
    title |-> "The GPT Creator Club"],
   [url |-> "https://19cc1zyhu2t45r4bqgnnn9br4o.hop.clickbank.net",
    title |-> "FREE Traffic System - FD Marketing"]>>

\* the page without offers
NoLinks == <<>>

\* if (links.length > 0) setHighlightedOffer(links[Math.floor(Math.random() *
\* links.length)]): the values the state can get
PickOffer(links, current) ==
  IF Len(links) > 0
  THEN {links[randomIndex + 1] : randomIndex \in 0..(Len(links) - 1)}
  ELSE {current}

\* a filter that keeps every offer
MoreRecommendedOffersMut(links, highlighted) == links

\* 'More Recommended Offers': affiliateLinks.filter(link => !highlightedOffer
\* || link.url !== highlightedOffer.url)
MoreRecommendedOffers(links, highlighted) ==
  SelectSeq(links, LAMBDA link : highlighted = NoOffer \/ link.url # highlighted.url)

\* `gen-${Date.now()}-${index}`, index counted from 0
GenId(prefix, time, index) == <<prefix, ToString(time), "-", ToString(index)>>

(* --- the load effect --------------------------------------------------- *)
\* the last member named key, or "undefined"
HasMember(obj, key) == \E i \in 1..Len(obj.v) : obj.v[i].key = key
GetMember(obj, key) ==
  LET i == CHOOSE i \in 1..Len(obj.v) :
             /\ obj.v[i].key = key
             /\ \A j \in (i+1)..Len(obj.v) : obj.v[j].key # key
  IN obj.v[i].val

\* typeof item[key], for an item that is not null
TypeOfMember(item, key) ==
  IF item.t = "obj" /\ HasMember(item, key)
  THEN (IF GetMember(item, key).t = "arr" THEN "object" ELSE GetMember(item, key).t)
  ELSE "undefined"
IsArrayMember(item, key) ==
  item.t = "obj" /\ HasMember(item, key) /\ GetMember(item, key).t = "arr"

\* item => typeof item.id === 'string' && typeof item.text === 'string'
\*         && Array.isArray(item.websites); reading a property of null throws
ItemCheck(item) ==
  IF item.t = "null" THEN "throw"
  ELSE IF /\ TypeOfMember(item, Str("id")) = "str"
          /\ TypeOfMember(item, Str("text")) = "str"
          /\ IsArrayMember(item, Str("websites"))
       THEN "true" ELSE "false"

RECURSIVE Every(_)
\* Array.prototype.every with ItemCheck: stops at the first false or throw
Every(items) ==
  IF items = <<>> THEN "true"
  ELSE LET c == ItemCheck(Head(items))
       IN IF c = "true" THEN Every(Tail(items)) ELSE c

\* the parsed array as Idea records (the stored websites are strings)
AsIdeas(arr) ==
  [i \in 1..Len(arr.v) |->
     [id |-> GetMember(arr.v[i], Str("id")).v,
      text |-> GetMember(arr.v[i], Str("text")).v,
      websites |-> [j \in 1..Len(GetMember(arr.v[i], Str("websites")).v) |->
                      GetMember(arr.v[i], Str("websites")).v[j].v]]]

Keep == [set |-> FALSE, ideas |-> <<>>, remove |-> FALSE, uncaught |-> FALSE]

\* the load effect that trusts the items that pass the check
LoadOutcomePartial(st) ==
  IF ~st.present \/ st.value = <<>> THEN Keep
  ELSE LET p == JsonParse(st.value)
           good == IF p.val.t = "arr"
                   THEN SelectSeq(p.val.v, LAMBDA it : ItemCheck(it) = "true")
                   ELSE <<>>
       IN IF p.threw THEN [Keep EXCEPT !.remove = TRUE]
          ELSE [Keep EXCEPT !.set = TRUE, !.ideas = AsIdeas(JArr(good))]

\* what the load effect does with the stored value: setSavedIdeas(parsed),
\* or removeItem when parsing or the check fails or throws
LoadOutcome(st) ==
  IF ~st.present \/ st.value = <<>> THEN Keep
  ELSE LET p == JsonParse(st.value)
       IN IF p.threw THEN [Keep EXCEPT !.remove = TRUE]
          ELSE IF p.val.t = "arr" /\ Every(p.val.v) = "throw"
               THEN [Keep EXCEPT !.remove = TRUE]
          ELSE IF p.val.t = "arr" /\ Every(p.val.v) = "true"
               THEN [Keep EXCEPT !.set = TRUE, !.ideas = AsIdeas(p.val)]
          ELSE [Keep EXCEPT !.remove = TRUE]

(* --- corrupted stored values the model starts from ---------------------- *)
SampleIdea == [id |-> GenId("gen-", 1, 0), text |-> Str("Proofread essays"),
               websites |-> <<GoodUrl>>]
ObjTokens(members) ==
  <<Punct("{")>> \o JoinTokens(members) \o <<Punct("}")>>
IdMember(tok) == <<StrTok(Str("id")), Punct(":"), tok>>
TextMember(tok) == <<StrTok(Str("text")), Punct(":"), tok>>
WebsitesMember(toks) == <<StrTok(Str("websites")), Punct(":")>> \o toks
EmptyArray == <<Punct("["), Punct("]")>>
InArray(parts) == <<Punct("[")>> \o JoinTokens(parts) \o <<Punct("]")>>

\* not parseable as JSON
UnparseableBlobs ==
  { <<LitTok("hustle")>>,                                    \* hustle
    <<Punct("[")>> \o StringifyIdea(SampleIdea),               \* [{...}  (cut short)
    <<Punct("{"), StrTok(Str("id")), Punct("}")>>,           \* {"id"}
    JsonStringify(<<SampleIdea>>) \o <<Punct("]")>> }          \* [{...}]]

\* parseable, but no array of {id: string, text: string, websites: array}
MisshapenBlobs ==
  { <<LitTok("null")>>,                                      \* null
    <<LitTok("42")>>,                                        \* 42
    <<StrTok(Str("gen-1-0"))>>,                              \* "gen-1-0"
    StringifyIdea(SampleIdea),                               \* {...}  (no array)
    InArray(<<<<LitTok("null")>>>>),                         \* [null]
    InArray(<<<<StrTok(Str("idea"))>>>>),                    \* ["idea"]
    InArray(<<EmptyArray>>),                                 \* [[]]
    InArray(<<ObjTokens(<<IdMember(StrTok(Str("a"))),        \* [{"id":"a","text":"t"}]
                          TextMember(StrTok(Str("t")))>>)>>),
    InArray(<<ObjTokens(<<IdMember(LitTok("42")),            \* [{"id":42,"text":"t","websites":[]}]
                          TextMember(StrTok(Str("t"))),
                          WebsitesMember(EmptyArray)>>)>>),
    InArray(<<ObjTokens(<<IdMember(StrTok(Str("a"))),        \* [{"id":"a","text":null,"websites":[]}]
                          TextMember(LitTok("null")),
                          WebsitesMember(EmptyArray)>>)>>),
    InArray(<<ObjTokens(<<IdMember(StrTok(Str("a"))),        \* [{"id":"a","text":"t","websites":"w"}]
                          TextMember(StrTok(Str("t"))),
                          WebsitesMember(<<StrTok(Str("w"))>>)>>)>>),
    InArray(<<StringifyIdea(SampleIdea),                     \* [{...}, {"id":"b"}]
              ObjTokens(<<IdMember(StrTok(Str("b")))>>)>>),
    InArray(<<StringifyIdea(SampleIdea), <<LitTok("null")>>>>) } \* [{...}, null]

CorruptBlobs == UnparseableBlobs \cup MisshapenBlobs

\* the empty string and the empty array: stored values that hold no idea
EmptyBlobs == { <<>>, EmptyArray }

InitialStorage ==
  {NoKey} \cup {Stored(b) : b \in CorruptBlobs \cup EmptyBlobs}

(* ------------------------------ actions -------------------------------- *)
FreshState ==
  /\ savedIdeas = <<>>
  /\ generatedIdeas = <<>>
  /\ isLoading = FALSE
  /\ rendered = Snapshot(<<>>, <<>>, FALSE)
  /\ dirty = {}
  /\ effects = <<>>
  /\ phase = "unmounted"
  /\ crashed = FALSE
  /\ toast = NoToast
  /\ fieldErrors = {}
  /\ requests = <<>>
  /\ highlightedOffer = NoOffer
  /\ lastDone = [valid |-> FALSE, kind |-> "", texts |-> <<>>, toast |-> NoToast,
                 result |-> Returned(TRUE, <<>>), calls |-> 0]

Init ==
  /\ storage \in InitialStorage
  /\ now = 1
  /\ boot = [fresh |-> FALSE, stored |-> NoKey]
  /\ reloaded = [valid |-> FALSE, list |-> <<>>, stored |-> NoKey]
  /\ lastRemoved = [valid |-> FALSE, id |-> <<>>, before |-> <<>>]
  /\ FreshState

\* every handler and effect runs on a live component
Alive == phase = "mounted" /\ ~crashed

\* React has committed every state update and run the effects of the commit:
\* updates made in a click or submit handler are flushed before the next
\* event is dispatched
Quiescent == Alive /\ dirty = {} /\ effects = <<>>

\* the first render of Home, with the initial state; its two storage effects
\* are scheduled in declaration order
\* the effects in the reverse of their order in the component
MountEffectsMut == <<"persist", "load">>

\* the effects of the first render, run in the order of their declaration:
\* the load effect (deps []), then the persist effect (deps [savedIdeas])
MountEffects == <<"load", "persist">>

Mount ==
  /\ phase = "unmounted"
  /\ phase' = "mounted"
  /\ rendered' = Snapshot(savedIdeas, generatedIdeas, isLoading)
  /\ effects' = MountEffects
  /\ boot' = [fresh |-> TRUE, stored |-> storage]
  /\ toast' = NoToast
  /\ UNCHANGED <<storage, savedIdeas, generatedIdeas, isLoading, dirty, crashed,
                 fieldErrors, requests, now, reloaded, lastDone, lastRemoved,
                 highlightedOffer>>

\* useEffect(() => { ...getItem...; JSON.parse...; setSavedIdeas | removeItem }, [])
LoadEffect ==
  /\ Alive
  /\ effects # <<>> /\ Head(effects) = "load"
  /\ LET o == LoadOutcome(storage)
     IN /\ crashed' = o.uncaught
        /\ savedIdeas' = IF o.set THEN o.ideas ELSE savedIdeas
        /\ dirty' = IF o.set THEN dirty \cup {"savedIdeas"} ELSE dirty
        /\ storage' = IF o.remove THEN NoKey ELSE storage
  /\ effects' = Tail(effects)
  /\ toast' = NoToast
  /\ UNCHANGED <<generatedIdeas, isLoading, rendered, phase, fieldErrors,
                 requests, now, boot, reloaded, lastDone, lastRemoved,
                 highlightedOffer>>

\* a persist effect that stores the empty list as well
PersistedValueMut(saved) == Stored(JsonStringify(saved))

\* if (savedIdeas.length > 0) setItem(key, JSON.stringify(savedIdeas))
\* else removeItem(key)
PersistedValue(saved) ==
  IF Len(saved) > 0 THEN Stored(JsonStringify(saved)) ELSE NoKey

\* useEffect(() => {...}, [savedIdeas]): runs with the savedIdeas of the render
\* that scheduled it
PersistEffect ==
  /\ Alive
  /\ effects # <<>> /\ Head(effects) = "persist"
  /\ storage' = PersistedValue(rendered.savedIdeas)
  /\ effects' = Tail(effects)
  /\ toast' = NoToast
  /\ UNCHANGED <<savedIdeas, generatedIdeas, isLoading, rendered, dirty, phase,
                 crashed, fieldErrors, requests, now, boot, reloaded, lastDone, lastRemoved,
                 highlightedOffer>>

\* React re-renders Home with the latest state; the persist effect is
\* scheduled when savedIdeas was set
Render ==
  /\ Alive
  /\ effects = <<>>
  /\ dirty # {}
  /\ rendered' = Snapshot(savedIdeas, generatedIdeas, isLoading)
  /\ effects' = IF "savedIdeas" \in dirty THEN <<"persist">> ELSE <<>>
  /\ dirty' = {}
  /\ toast' = NoToast
  /\ UNCHANGED <<storage, savedIdeas, generatedIdeas, isLoading, phase, crashed,
                 fieldErrors, requests, now, boot, reloaded, lastDone, lastRemoved,
                 highlightedOffer>>

(* --- submitting the form ----------------------------------------------- *)
\* at most this many calls in flight are explored
MaxInFlight == 2

\* a submit button that is never disabled
SubmitEnabledMut(r) == TRUE

\* <Button type="submit" disabled={isLoading}>: the rendered button takes a
\* click (or an implicit submission of the form) only when it is not disabled
SubmitEnabled(r) == ~r.isLoading

\* the history variables once the user has acted
Used == [fresh |-> FALSE, stored |-> NoKey]
NotReloaded == [valid |-> FALSE, list |-> <<>>, stored |-> NoKey]

NotRemoved == [valid |-> FALSE, id |-> <<>>, before |-> <<>>]

NewRequest(input) == [stage |-> "invoked", input |-> input, calls |-> 0]

NotDone ==
  [valid |-> FALSE, kind |-> "", texts |-> <<>>, toast |-> NoToast,
   result |-> Returned(TRUE, <<>>), calls |-> 0]

\* form.handleSubmit(onSubmit) with values the resolver rejects: the errors
\* are shown next to the fields and onSubmit is not called
SubmitInvalid(values) ==
  /\ Quiescent
  /\ SubmitEnabled(rendered)
  /\ FormErrors(values) # {}
  /\ fieldErrors' = FormErrors(values)
  /\ toast' = NoToast
  /\ boot' = Used
  /\ reloaded' = NotReloaded
  /\ lastDone' = NotDone
  /\ lastRemoved' = NotRemoved
  /\ UNCHANGED <<storage, savedIdeas, generatedIdeas, isLoading, rendered,
                 dirty, effects, phase, crashed, requests, now,
                 highlightedOffer>>

\* onSubmit without its setGeneratedIdeas([])
OnSubmitNoClear(values) ==
  /\ Quiescent
  /\ SubmitEnabled(rendered)
  /\ FormErrors(values) = {}
  /\ Len(requests) < MaxInFlight
  /\ fieldErrors' = {}
  /\ isLoading' = TRUE
  /\ dirty' = dirty \cup {"isLoading"}
  /\ requests' = Append(requests, NewRequest(Coerced(values)))
  /\ lastDone' = NotDone
  /\ lastRemoved' = NotRemoved
  /\ toast' = NoToast
  /\ boot' = Used
  /\ reloaded' = NotReloaded
  /\ highlightedOffer' = NoOffer
  /\ UNCHANGED <<storage, savedIdeas, generatedIdeas, rendered, effects, phase,
                 crashed, now>>

\* form.handleSubmit(onSubmit) with valid values: onSubmit runs up to its
\* await: setIsLoading(true); setGeneratedIdeas([]); generateDailyHustleIdeas(...)
\* (the page with offers also clears the highlighted offer, which the page
\* without them never sets)
OnSubmit(values) ==
  /\ Quiescent
  /\ SubmitEnabled(rendered)
  /\ FormErrors(values) = {}
  /\ Len(requests) < MaxInFlight
  /\ fieldErrors' = {}
  /\ isLoading' = TRUE
  /\ generatedIdeas' = <<>>
  /\ dirty' = dirty \cup {"isLoading", "generatedIdeas"}
  /\ requests' = Append(requests, NewRequest(Coerced(values)))
  /\ lastDone' = NotDone
  /\ lastRemoved' = NotRemoved
  /\ toast' = NoToast
  /\ boot' = Used
  /\ reloaded' = NotReloaded
  /\ highlightedOffer' = NoOffer
  /\ UNCHANGED <<storage, savedIdeas, rendered, effects, phase, crashed, now>>

\* server side: the wrapper invokes the flow, whose body calls prompt(input)
FlowCallsPrompt(i) ==
  /\ i \in 1..Len(requests)
  /\ requests[i].stage = "invoked"
  /\ requests' = [requests EXCEPT ![i].stage = "awaiting",
                                  ![i].calls = requests[i].calls + 1]
  /\ toast' = NoToast
  /\ UNCHANGED <<storage, savedIdeas, generatedIdeas, isLoading, rendered,
                 dirty, effects, phase, crashed, fieldErrors, now, boot,
                 reloaded, lastDone, lastRemoved,
                 highlightedOffer>>

TextsOf(rawIdeas) == [j \in 1..Len(rawIdeas) |-> rawIdeas[j].idea]

\* what the provider's answer was: a fault, no output, or ideas (with or
\* without a website that is no URL)
KindOf(b) ==
  IF b.kind = "ideas"
     /\ \E j \in 1..Len(b.ideas) : \E k \in 1..Len(b.ideas[j].suggestedWebsites) :
           ~NewURL(b.ideas[j].suggestedWebsites[k]).ok
  THEN "invalidUrls"
  ELSE b.kind

\* a mapping that gives every idea the id of index 0
MapIdeasMut(prefix, rawIdeas, time) ==
  [j \in 1..Len(rawIdeas) |->
     [id |-> GenId(prefix, time, 0),
      text |-> rawIdeas[j].idea,
      websites |-> rawIdeas[j].suggestedWebsites]]

\* result.ideas.map((ideaObj, index) => ({id, text, websites}))
MapIdeas(prefix, rawIdeas, time) ==
  [j \in 1..Len(rawIdeas) |->
     [id |-> GenId(prefix, time, j - 1),
      text |-> rawIdeas[j].idea,
      websites |-> rawIdeas[j].suggestedWebsites]]

\* cause.ideas.map((ideaObj, index) => ({id, text, websites})) of the catch
\* block: the websites of the payload are JSON values, and the entries kept
\* are those with typeof ws === 'string' (none when there is no array)
SalvageIdeas(payload, time) ==
  [j \in 1..Len(payload) |->
     [id |-> GenId("gen-err-", time, j - 1),
      text |-> payload[j].idea,
      websites |->
        IF payload[j].suggestedWebsites.t = "arr"
        THEN LET kept == SelectSeq(payload[j].suggestedWebsites.v,
                                   LAMBDA ws : ws.t = "str")
             IN [k \in 1..Len(kept) |-> kept[k].v]
        ELSE <<>>]]

\* an outcome that notifies unless a branch says otherwise
NoChangeMut ==
  [set |-> FALSE, ideas |-> <<>>,
   toast |-> [title |-> "Ideas Generated", description |-> <<>>, variant |-> "default"]]

\* the outcome before a branch of onSubmit has acted: no list set, no
\* notification
NoChange == [set |-> FALSE, ideas |-> <<>>, toast |-> NoToast]

\* onSubmit with a catch block that shows nothing
OnSubmitOutcomeMut(r, time) ==
  IF ~r.threw /\ r.value.isArray
  THEN [NoChange EXCEPT !.set = TRUE,
                        !.ideas = MapIdeas("gen-", r.value.ideas, time)]
  ELSE NoChange

\* onSubmit after the await: the try block's remainder and the catch block
OnSubmitOutcome(r, time) ==
  IF ~r.threw
  THEN IF r.value.isArray
       THEN [NoChange EXCEPT !.set = TRUE,
                             !.ideas = MapIdeas("gen-", r.value.ideas, time)]
       ELSE [NoChange EXCEPT !.toast = Toast("Error", FormatDescription, "destructive")]
  ELSE IF Includes(r.message, <<"prompt was blocked">>)
       THEN [NoChange EXCEPT
               !.toast = Toast("Error Generating Ideas", BlockedDescription, "destructive")]
  ELSE IF Includes(r.message, <<"invalid URLs">>)
       THEN [set |-> r.cause.present,
             ideas |-> IF r.cause.present
                       THEN SalvageIdeas(r.cause.ideas, time) ELSE <<>>,
             toast |-> Toast("Error Generating Ideas", InvalidUrlsDescription, "destructive")]
  ELSE [NoChange EXCEPT
          !.toast = Toast("Error Generating Ideas", GenericDescription, "destructive")]

\* a busy flag that a thrown error leaves set
FinallyIsLoadingMut(r) == r.threw

\* finally { setIsLoading(false) }: the flag after the request, however it ended
FinallyIsLoading(r) == FALSE

RemoveAt(s, i) == SubSeq(s, 1, i - 1) \o SubSeq(s, i + 1, Len(s))

\* onSubmit from the point where its await resumes with r (a value or a
\* thrown error): the result is handled and, in finally, the busy flag is
\* cleared; on a page with offers (links) one of them is highlighted where
\* the generated list is set
onSubmitAfterAwait(i, r, kind, texts, links) ==
  /\ LET o == OnSubmitOutcome(r, now)
     IN /\ generatedIdeas' = IF o.set THEN o.ideas ELSE generatedIdeas
        /\ highlightedOffer' \in IF o.set THEN PickOffer(links, highlightedOffer)
                                  ELSE {highlightedOffer}
        /\ toast' = o.toast
        /\ dirty' = dirty \cup {"isLoading"}
                      \cup (IF o.set THEN {"generatedIdeas"} ELSE {})
        /\ lastDone' = [valid |-> TRUE, kind |-> kind, texts |-> texts,
                        toast |-> o.toast, result |-> r,
                        calls |-> requests[i].calls]
        /\ isLoading' = FinallyIsLoading(r)
  /\ requests' = RemoveAt(requests, i)
  /\ UNCHANGED <<storage, savedIdeas, rendered, effects, phase, crashed,
                 fieldErrors, now, boot, reloaded, lastRemoved>>

\* the provider answers, generateDailyHustleIdeas returns or throws, and the
\* await of onSubmit resumes
OnSubmitResume(i, b) ==
  /\ Alive
  /\ i \in 1..Len(requests)
  /\ requests[i].stage = "awaiting"
  /\ onSubmitAfterAwait(i, generateDailyHustleIdeas(requests[i].input, b),
                        KindOf(b), TextsOf(b.ideas), NoLinks)

\* errors of the kind the catch block of onSubmit looks for: the message has
\* "invalid URLs", and the cause, when there is one, has the ideas of the
\* response with website entries of any JSON type
PayloadWebsites ==
  {JArr(<<JStr(GoodUrl)>>), JArr(<<JStr(BareHost)>>),
   JArr(<<JNum("42"), JStr(GoodUrl)>>), JNull}
InvalidUrlsMessage == <<"The response has ", "invalid URLs", ".">>
Rejections ==
  {Thrown(InvalidUrlsMessage, NoCause)}
  \cup {Thrown(InvalidUrlsMessage,
               [present |-> TRUE,
                ideas |-> <<[idea |-> Str("Proofread essays"),
                             suggestedWebsites |-> ws]>>]) :
          ws \in PayloadWebsites}

\* the await of onSubmit resumes with an error e thrown to it
OnSubmitRejected(i, e) ==
  /\ Alive
  /\ i \in 1..Len(requests)
  /\ requests[i].stage = "awaiting"
  /\ onSubmitAfterAwait(i, e, "rejected", TextsOf(e.cause.ideas), NoLinks)

\* the same two steps on the page with affiliate offers
OnSubmitResumeOffers(i, b) ==
  /\ Alive
  /\ i \in 1..Len(requests)
  /\ requests[i].stage = "awaiting"
  /\ onSubmitAfterAwait(i, generateDailyHustleIdeas(requests[i].input, b),
                        KindOf(b), TextsOf(b.ideas), affiliateLinks)

OnSubmitRejectedOffers(i, e) ==
  /\ Alive
  /\ i \in 1..Len(requests)
  /\ requests[i].stage = "awaiting"
  /\ onSubmitAfterAwait(i, e, "rejected", TextsOf(e.cause.ideas), affiliateLinks)

(* --- the saved list ---------------------------------------------------- *)
\* a duplicate check that never finds the idea
IsSavedMut(saved, idea) == FALSE

\* savedIdeas.some(idea => idea.id === ideaToSave.id)
IsSaved(saved, idea) == \E i \in 1..Len(saved) : saved[i].id = idea.id

\* `"${ideaToSave.text.substring(0, 30)}..." saved successfully.`; the texts
\* of the model are shorter than 30 characters
SavedDescription(idea) == <<"\"">> \o idea.text \o <<"...\" saved successfully.">>

\* saveIdea without its duplicate check
SaveIdeaNoCheck(idea) ==
  /\ Quiescent
  /\ idea \in Range(rendered.generatedIdeas)
  /\ Len(savedIdeas) < MaxSaved
  /\ savedIdeas' = Append(savedIdeas, idea)
  /\ dirty' = dirty \cup {"savedIdeas"}
  /\ toast' = Toast("Idea Saved", SavedDescription(idea), "default")
  /\ boot' = Used
  /\ reloaded' = NotReloaded
  /\ lastDone' = NotDone
  /\ lastRemoved' = NotRemoved
  /\ UNCHANGED <<storage, generatedIdeas, isLoading, rendered, effects, phase,
                 crashed, fieldErrors, requests, now,
                 highlightedOffer>>

\* saveIdea(ideaToSave): the handler reads the savedIdeas of its render for
\* the duplicate check and appends with a functional update to the latest
\* list
saveIdea(idea) ==
  /\ IF ~IsSaved(rendered.savedIdeas, idea)
     THEN /\ Len(savedIdeas) < MaxSaved
          /\ savedIdeas' = Append(savedIdeas, idea)
          /\ dirty' = dirty \cup {"savedIdeas"}
          /\ toast' = Toast("Idea Saved", SavedDescription(idea), "default")
     ELSE /\ toast' = Toast("Already Saved",
                            <<"This idea is already in your saved list.">>, "default")
          /\ UNCHANGED <<savedIdeas, dirty, highlightedOffer>>
  /\ boot' = Used
  /\ reloaded' = NotReloaded
  /\ lastDone' = NotDone
  /\ lastRemoved' = NotRemoved
  /\ UNCHANGED <<storage, generatedIdeas, isLoading, rendered, effects, phase,
                 crashed, fieldErrors, requests, now,
                 highlightedOffer>>

\* click on Save of a rendered generated idea
SaveIdea(idea) ==
  /\ Quiescent
  /\ idea \in Range(rendered.generatedIdeas)
  /\ saveIdea(idea)

\* a click on Save that is handled before the component has re-rendered: the
\* handler is the one of the last render
SaveBeforeRender(idea) ==
  /\ Alive
  /\ effects = <<>>
  /\ dirty # {}
  /\ idea \in Range(rendered.generatedIdeas)
  /\ saveIdea(idea)

\* a filter that drops the first entry, whatever its id
WithoutIdMut(saved, id) == IF saved = <<>> THEN <<>> ELSE Tail(saved)

\* prev.filter(idea => idea.id !== idToRemove)
WithoutId(saved, id) == SelectSeq(saved, LAMBDA e : e.id # id)

\* a removal that clears the busy flag and the generated list as well
removeSavedIdeaResets(id) ==
  /\ savedIdeas' = WithoutId(savedIdeas, id)
  /\ generatedIdeas' = <<>>
  /\ isLoading' = FALSE
  /\ dirty' = dirty \cup {"savedIdeas", "generatedIdeas", "isLoading"}
  /\ toast' = Toast("Idea Removed",
                    <<"The idea has been removed from your saved list.">>, "default")
  /\ boot' = Used
  /\ reloaded' = NotReloaded
  /\ lastDone' = NotDone
  /\ lastRemoved' = [valid |-> TRUE, id |-> id, before |-> savedIdeas]
  /\ UNCHANGED <<storage, rendered, effects, phase, crashed, fieldErrors,
                 requests, now,
                 highlightedOffer>>

\* removeSavedIdea(idToRemove): setSavedIdeas(prev => prev.filter(...)) and
\* the 'Idea Removed' notification
removeSavedIdea(id) ==
  /\ savedIdeas' = WithoutId(savedIdeas, id)
  /\ dirty' = dirty \cup {"savedIdeas"}
  /\ toast' = Toast("Idea Removed",
                    <<"The idea has been removed from your saved list.">>, "default")
  /\ boot' = Used
  /\ reloaded' = NotReloaded
  /\ lastDone' = NotDone
  /\ lastRemoved' = [valid |-> TRUE, id |-> id, before |-> savedIdeas]
  /\ UNCHANGED <<storage, generatedIdeas, isLoading, rendered, effects, phase,
                 crashed, fieldErrors, requests, now,
                 highlightedOffer>>

\* click on Remove of a rendered saved idea
RemoveSavedIdea(id) ==
  /\ Quiescent
  /\ id \in Range(Ids(rendered.savedIdeas))
  /\ removeSavedIdea(id)

\* a click on Remove that is handled before the component has re-rendered:
\* the saved entries on screen are those of the last render
RemoveBeforeRender(id) ==
  /\ Alive
  /\ effects = <<>>
  /\ dirty # {}
  /\ id \in Range(Ids(rendered.savedIdeas))
  /\ removeSavedIdea(id)

\* the clock advances; Date.now() is read only when a request resumes, so the
\* clock is stepped only while a request is in flight
Tick ==
  /\ requests # <<>>
  /\ now < MaxTime
  /\ now' = now + 1
  /\ toast' = NoToast
  /\ UNCHANGED <<storage, savedIdeas, generatedIdeas, isLoading, rendered,
                 dirty, effects, phase, crashed, fieldErrors, requests, boot,
                 reloaded, lastDone, lastRemoved,
                 highlightedOffer>>

\* the persist effect has run for the current saved list
Persisted == Alive /\ effects = <<>> /\ "savedIdeas" \notin dirty

\* the page is reloaded: the component state is gone, localStorage stays
Reload ==
  /\ phase = "mounted"
  /\ reloaded' = IF Persisted
                 THEN [valid |-> TRUE, list |-> savedIdeas, stored |-> storage]
                 ELSE NotReloaded
  /\ boot' = Used
  /\ savedIdeas' = <<>>
  /\ generatedIdeas' = <<>>
  /\ isLoading' = FALSE
  /\ rendered' = Snapshot(<<>>, <<>>, FALSE)
  /\ dirty' = {}
  /\ effects' = <<>>
  /\ phase' = "unmounted"
  /\ crashed' = FALSE
  /\ toast' = NoToast
  /\ fieldErrors' = {}
  /\ requests' = <<>>
  /\ lastDone' = NotDone
  /\ lastRemoved' = NotRemoved
  /\ highlightedOffer' = NoOffer
  /\ UNCHANGED <<storage, now>>

Next ==
  \/ Mount
  \/ LoadEffect
  \/ PersistEffect
  \/ Render
  \/ \E values \in FormInputs : SubmitInvalid(values)
  \/ \E values \in FormInputs : OnSubmit(values)
  \/ \E i \in 1..MaxInFlight : FlowCallsPrompt(i)
  \/ \E i \in 1..MaxInFlight : \E b \in ProviderBehaviours : OnSubmitResume(i, b)
  \/ \E idea \in Range(rendered.generatedIdeas) : SaveIdea(idea)
  \/ \E id \in Range(Ids(rendered.savedIdeas)) : RemoveSavedIdea(id)
  \/ Tick
  \/ Reload

Spec == Init /\ [][Next]_vars

\* onSubmit with every outcome its await can have: what the wrapper of this
\* repository returns or throws, and errors with a payload to salvage; the
\* ideas on screen are saved and removed
NextRejections ==
  \/ Mount
  \/ LoadEffect
  \/ PersistEffect
  \/ Render
  \/ \E values \in FormInputs : OnSubmit(values)
  \/ \E i \in 1..MaxInFlight : FlowCallsPrompt(i)
  \/ \E i \in 1..MaxInFlight : \E b \in ProviderBehaviours : OnSubmitResume(i, b)
  \/ \E i \in 1..MaxInFlight : \E e \in Rejections : OnSubmitRejected(i, e)
  \/ \E idea \in Range(rendered.generatedIdeas) : SaveIdea(idea)
  \/ \E id \in Range(Ids(rendered.savedIdeas)) : RemoveSavedIdea(id)

SpecRejections == Init /\ [][NextRejections]_vars

\* a provider that answers different requests with different ideas
OtherBehaviours ==
  {[kind |-> "ideas",
    ideas |-> <<[idea |-> Str("Walk dogs"), suggestedWebsites |-> <<GoodUrl>>]>>]}

NextResponses ==
  \/ Next
  \/ \E i \in 1..MaxInFlight : \E b \in OtherBehaviours : OnSubmitResume(i, b)

SpecResponses == Init /\ [][NextResponses]_vars

\* the page with affiliate offers: requests and their outcomes
NextOffers ==
  \/ Mount
  \/ LoadEffect
  \/ PersistEffect
  \/ Render
  \/ \E values \in FormInputs : OnSubmit(values)
  \/ \E i \in 1..MaxInFlight : FlowCallsPrompt(i)
  \/ \E i \in 1..MaxInFlight : \E b \in ProviderBehaviours : OnSubmitResumeOffers(i, b)
  \/ \E i \in 1..MaxInFlight : \E e \in Rejections : OnSubmitRejectedOffers(i, e)

SpecOffers == Init /\ [][NextOffers]_vars

\* saved lists an earlier session, or anything else that writes the key, may
\* have left in localStorage: every idea with one website string
StoredLists ==
  {[k \in 1..Len(ws) |->
      [id |-> GenId("gen-", 1, k - 1), text |-> Str("Proofread essays"),
       websites |-> <<ws[k]>>]] :
     ws \in SeqsUpTo(WebsiteInputs, MaxSaved) \ {<<>>}}

InitStored ==
  /\ storage \in {Stored(JsonStringify(l)) : l \in StoredLists}
  /\ now = 1
  /\ boot = Used
  /\ reloaded = NotReloaded
  /\ lastRemoved = NotRemoved
  /\ FreshState

\* the saved list of a session that starts from a stored list: it is loaded,
\* shown, and its entries are removed
NextStored ==
  \/ Mount
  \/ LoadEffect
  \/ PersistEffect
  \/ Render
  \/ \E id \in Range(Ids(rendered.savedIdeas)) : RemoveSavedIdea(id)
  \/ Reload

SpecStored == InitStored /\ [][NextStored]_vars

\* the component when clicks may be handled before the re-render that the
\* previous event asked for
NextBatched ==
  \/ Next
  \/ \E id \in Range(Ids(rendered.savedIdeas)) : RemoveBeforeRender(id)
  \/ \E idea \in Range(rendered.generatedIdeas) : SaveBeforeRender(idea)

SpecBatched == Init /\ [][NextBatched]_vars

(* ------------------------------ properties ----------------------------- *)
Unique(seq) == \A i, j \in 1..Len(seq) : seq[i] = seq[j] => i = j

\* the ids of the objects of a stored array
BlobIds(st) ==
  LET p == JsonParse(st.value)
      items == IF st.present /\ ~p.threw /\ p.val.t = "arr"
               THEN SelectSeq(p.val.v, LAMBDA it : it.t = "obj" /\ HasMember(it, Str("id")))
               ELSE <<>>
  IN [i \in 1..Len(items) |-> GetMember(items[i], Str("id")).v]

\* C1: saveIdea appends the idea at the end of the saved list when no entry
\* has its id, with the notification 'Idea Saved'; when an entry has its id
\* the saved list stays as it is and the notification is 'Already Saved'.
SaveAppendsOnce ==
  [][\A idea \in Range(rendered.generatedIdeas) :
       SaveIdea(idea) =>
         IF \E i \in 1..Len(savedIdeas) : savedIdeas[i].id = idea.id
         THEN savedIdeas' = savedIdeas /\ toast'.title = "Already Saved"
         ELSE /\ savedIdeas' = Append(savedIdeas, idea)
              /\ toast'.title = "Idea Saved"]_vars

\* a second save of a saved idea was answered with 'Already Saved'
SavedTwice ==
  /\ toast.title = "Already Saved"
  /\ \E i \in 1..Len(savedIdeas) : savedIdeas[i] \in Range(generatedIdeas)

CorruptStorageDiscarded ==
  (boot.fresh /\ boot.stored.present /\ boot.stored.value \in CorruptBlobs) =>
     /\ ~crashed
     /\ savedIdeas = <<>>
     /\ rendered.savedIdeas = <<>>
     /\ Quiescent => ~storage.present

\* startup is over for a stored array whose first item is a valid idea and
\* whose second is not
PartlyValidDiscarded ==
  /\ boot.fresh
  /\ Quiescent
  /\ boot.stored.present
  /\ boot.stored.value =
       InArray(<<StringifyIdea(SampleIdea), ObjTokens(<<IdMember(StrTok(Str("b")))>>)>>)

\* C5 (as claimed): generateDailyHustleIdeas returns an ideas array with at
\* least one idea, or throws.
ReturnsAtLeastOneIdea ==
  (lastDone.valid /\ ~lastDone.result.threw) =>
     /\ lastDone.result.value.isArray
     /\ Len(lastDone.result.value.ideas) >= 1

\* C5 (amended): generateDailyHustleIdeas returns an object whose ideas field
\* is an array, possibly empty, or throws.
ReturnsArrayOrThrows ==
  (lastDone.valid /\ ~lastDone.result.threw) => lastDone.result.value.isArray

\* the provider answered with an empty ideas array, which was returned
ReturnedEmptyArray ==
  /\ lastDone.valid
  /\ lastDone.kind = "ideas"
  /\ ~lastDone.result.threw
  /\ lastDone.result.value.ideas = <<>>

\* C6: when the provider returns no output (null, or an object without
\* ideas), generateDailyHustleIdeas returns {ideas: []} and does not throw.
NoOutputReturnsEmpty ==
  (lastDone.valid /\ lastDone.kind \in {"null", "noIdeas"}) =>
     /\ ~lastDone.result.threw
     /\ lastDone.result.value = [isArray |-> TRUE, ideas |-> <<>>]

\* a request whose provider output was null has finished
NullOutputFinished == lastDone.valid /\ lastDone.kind = "null"

\* C7: at most one generation request is outstanding, and the busy flag is
\* set while it is.
AtMostOneOutstanding ==
  /\ Len(requests) <= 1
  /\ requests # <<>> => isLoading

\* a request is in flight and the rendered submit button is disabled
BusyButtonDisabled ==
  /\ Quiescent
  /\ Len(requests) = 1
  /\ ~SubmitEnabled(rendered)

\* C8 (as claimed): when the response fails schema validation because of
\* malformed website URLs, the request ends with the generated list holding
\* the ideas of the response, and a notice.
SalvagesInvalidUrls ==
  (lastDone.valid /\ lastDone.kind = "invalidUrls") =>
     /\ [j \in 1..Len(generatedIdeas) |-> generatedIdeas[j].text] = lastDone.texts
     /\ lastDone.toast.variant = "destructive"

\* C9: every provider-level fault (network error, safety block, schema
\* violation) makes generateDailyHustleIdeas throw an Error with its message,
\* and an invocation calls the provider once.
FaultsThrowOnce ==
  /\ \A i \in 1..Len(requests) : requests[i].calls <= 1
  /\ lastDone.valid =>
       /\ lastDone.calls = 1
       /\ lastDone.kind \in {"networkError", "blocked", "invalidUrls", "ideasNotArray"} =>
            /\ lastDone.result.threw
            /\ lastDone.result.message = <<"Failed to generate hustle ideas.">>

\* a request that met a network error has finished
NetworkFaultFinished ==
  /\ lastDone.valid
  /\ lastDone.kind = "networkError"
  /\ lastDone.result.threw

\* C10 (as claimed): the failure notification is the generic one unless the
\* fault is a safety block (blocked-by-safety-settings description) or an
\* invalid-URL schema violation (invalid-website-links description).
SpecificFailureNotice ==
  lastDone.valid =>
     /\ lastDone.kind = "blocked" => lastDone.toast.description = BlockedDescription
     /\ lastDone.kind = "invalidUrls" =>
          lastDone.toast.description = InvalidUrlsDescription
     /\ lastDone.kind = "networkError" => lastDone.toast.description = GenericDescription

\* the stored value read back as a list of ideas
StoredIdeas(st) ==
  LET p == JsonParse(st.value)
  IN IF st.present /\ ~p.threw /\ p.val.t = "arr" /\ Every(p.val.v) = "true"
     THEN AsIdeas(p.val) ELSE <<>>

\* C11: a request that fails (generateDailyHustleIdeas throws, or returns
\* something whose ideas is no array) ends with a generated list that holds
\* nothing but ideas of the response, one destructive notification, the busy
\* flag cleared, the saved list and the stored value as they were, and the
\* component alive.
FailureDegrades ==
  [][Len(requests') < Len(requests) =>
     \A i \in 1..MaxInFlight : \A b \in ProviderBehaviours :
       OnSubmitResume(i, b) =>
         LET r == generateDailyHustleIdeas(requests[i].input, b)
         IN (r.threw \/ ~r.value.isArray) =>
              /\ \A j \in 1..Len(generatedIdeas') :
                    generatedIdeas'[j].text \in Range(TextsOf(b.ideas))
              /\ toast'.variant = "destructive"
              /\ toast'.title \in {"Error", "Error Generating Ideas"}
              /\ ~isLoading'
              /\ savedIdeas' = savedIdeas
              /\ storage' = storage
              /\ ~crashed' /\ phase' = "mounted"]_vars

\* a request has failed while an idea was saved
FailedWithSavedIdea ==
  /\ lastDone.valid
  /\ lastDone.result.threw
  /\ toast.variant = "destructive"
  /\ ~isLoading
  /\ generatedIdeas = <<>>
  /\ Len(savedIdeas) >= 1

RemoveAbsentIsNoOp ==
  [][\A id \in Range(Ids(rendered.savedIdeas)) :
       (removeSavedIdea(id) /\ id \notin Range(Ids(savedIdeas))) =>
          /\ savedIdeas' = savedIdeas
          /\ generatedIdeas' = generatedIdeas
          /\ storage' = storage
          /\ toast'.title # "Idea Removed"]_vars

\* the website strings on screen
RenderedWebsites ==
  UNION {Range(idea.websites) :
           idea \in Range(rendered.savedIdeas) \cup Range(rendered.generatedIdeas)}

HttpProtocols == {<<"http", ":">>, <<"http", "s", ":">>}

\* C14 (as claimed): a displayed website string with no scheme (a bare
\* hostname) is a link to https://<hostname>, and a string that fails URL
\* parsing, with and without the prefix, is shown as inert text.
BareHostsBecomeHttpsLinks ==
  \A w \in RenderedWebsites :
     LET link == renderWebsiteLink(w)
     IN /\ (\A i \in 1..Len(w) : w[i] \in WordChunks) =>
             /\ link.anchor
             /\ link.protocol = <<"http", "s", ":">>
             /\ link.hostname = w
        /\ (~NewURL(w).ok /\ ~NewURL(HttpsPrefix \o w).ok) => ~link.anchor

\* C15 (as claimed): a displayed website string is an anchor only with the
\* protocol http: or https:, and a string with another scheme is no anchor.
OnlyHttpLinks ==
  \A w \in RenderedWebsites :
     LET link == renderWebsiteLink(w)
     IN /\ link.anchor => link.protocol \in HttpProtocols
        /\ (NewURL(w).ok /\ NewURL(w).protocol \notin HttpProtocols) => ~link.anchor

\* C16 (as claimed): the form accepts a submission exactly when the skills
\* are not empty and the target amount is a positive number; onSubmit runs,
\* with a request, for these values and no others, and a rejected submission
\* shows a field error and changes nothing else.
ValidatorAcceptsPositive ==
  [][\A values \in FormInputs :
       LET valid == /\ Len(values.userSkills) >= 1
                    /\ values.targetAmount.isNumber
                    /\ values.targetAmount.n > 0
       IN /\ OnSubmit(values) => valid /\ Len(requests') = Len(requests) + 1
          /\ SubmitInvalid(values) =>
                /\ ~valid
                /\ fieldErrors' # {}
                /\ requests' = requests
                /\ UNCHANGED <<generatedIdeas, savedIdeas, isLoading, highlightedOffer>>]_vars

\* C16 (amended): the form accepts a submission exactly when the skills are
\* not empty and the target amount is a number of at least 0.01 (10
\* thousandths); onSubmit runs, with a request, for these values and no
\* others, whenever the form can be submitted; a rejected submission shows a
\* field error and changes nothing else.
ValidatorAcceptsFromOneCent ==
  /\ [][\A values \in FormInputs :
          LET valid == /\ Len(values.userSkills) >= 1
                       /\ values.targetAmount.isNumber
                       /\ values.targetAmount.n >= 10
          IN /\ OnSubmit(values) => valid /\ Len(requests') = Len(requests) + 1
             /\ SubmitInvalid(values) =>
                   /\ ~valid
                   /\ fieldErrors' # {}
                   /\ requests' = requests
                   /\ UNCHANGED <<generatedIdeas, savedIdeas, isLoading, highlightedOffer>>]_vars
  /\ [](Quiescent /\ SubmitEnabled(rendered) =>
          \A values \in FormInputs :
             IF /\ Len(values.userSkills) >= 1
                /\ values.targetAmount.isNumber
                /\ values.targetAmount.n >= 10
             THEN ENABLED OnSubmit(values)
             ELSE ENABLED SubmitInvalid(values))

\* a submission was rejected for its target amount alone, with an idea saved
AmountRejected ==
  /\ fieldErrors = {"targetAmount"}
  /\ requests = <<>>
  /\ ~isLoading
  /\ Len(savedIdeas) >= 1

BusyTracksRequest ==
  /\ [](isLoading <=> requests # <<>>)
  /\ [](Quiescent => (SubmitEnabled(rendered) <=> requests = <<>>))
  /\ [][(\E values \in FormInputs : OnSubmit(values)) => isLoading']_vars
  /\ [][(/\ Len(requests') < Len(requests)
          /\ \E i \in 1..MaxInFlight : \E b \in ProviderBehaviours :
                OnSubmitResume(i, b)) => ~isLoading']_vars

\* a request ended with a thrown error and the submit button is enabled again
ReenabledAfterError ==
  /\ lastDone.valid
  /\ lastDone.result.threw
  /\ Quiescent
  /\ SubmitEnabled(rendered)

\* C19: after a request that returned an ideas array, the generated list has
\* the length and the order of the array; entry j has the text and the
\* websites of element j and the id gen-<time>-<j-1>, and the ids of the list
\* are pairwise distinct.
GeneratedMirrorsResult ==
  (lastDone.valid /\ ~lastDone.result.threw /\ lastDone.result.value.isArray) =>
     LET ideas == lastDone.result.value.ideas
     IN /\ Len(generatedIdeas) = Len(ideas)
        /\ \A j \in 1..Len(generatedIdeas) :
              /\ generatedIdeas[j].text = ideas[j].idea
              /\ generatedIdeas[j].websites = ideas[j].suggestedWebsites
              /\ \E t \in 1..MaxTime :
                    generatedIdeas[j].id = <<"gen-", ToString(t), "-", ToString(j - 1)>>
        /\ Unique(Ids(generatedIdeas))

\* a response of as many ideas as the provider gives is on the generated list
FullResponseGenerated ==
  /\ lastDone.valid
  /\ ~lastDone.result.threw
  /\ Len(lastDone.result.value.ideas) = MaxIdeas
  /\ Len(generatedIdeas) = MaxIdeas

\* C20: generateDailyHustleIdeas returns no website string that fails the URL
\* check: a response with such a string makes it throw, and every website of
\* the generated list passes new URL.
NoInvalidUrlReturned ==
  /\ lastDone.valid =>
       /\ lastDone.kind = "invalidUrls" => lastDone.result.threw
       /\ ~lastDone.result.threw =>
            \A j \in 1..Len(lastDone.result.value.ideas) :
               \A w \in Range(lastDone.result.value.ideas[j].suggestedWebsites) :
                  NewURL(w).ok
  /\ \A idea \in Range(generatedIdeas) : \A w \in Range(idea.websites) : NewURL(w).ok

\* a response with a website that is no URL was turned into a thrown error
InvalidUrlRejected ==
  /\ lastDone.valid
  /\ lastDone.kind = "invalidUrls"
  /\ lastDone.result.threw
  /\ generatedIdeas = <<>>

SavedOnceWhenBatched ==
  \A idea \in Range(rendered.generatedIdeas) :
     Cardinality({i \in 1..Len(savedIdeas) : savedIdeas[i].id = idea.id}) <= 1

\* C23: a startup from a valid stored list does not lose it. Until the first
\* user action the key is never absent while the saved list in memory is
\* empty, and once the effects have run the stored value is the one found at
\* mount and the list in memory is the list it holds.
StoredListSurvivesStartup ==
  (boot.fresh /\ boot.stored \in {Stored(JsonStringify(l)) : l \in StoredLists}) =>
     /\ ~(storage = NoKey /\ savedIdeas = <<>>)
     /\ Persisted => (storage = boot.stored /\ storage = Stored(JsonStringify(savedIdeas)))

\* the persist effect of the first render has removed the key while the
\* loaded list waits for the re-render
KeyRemovedWhileLoaded ==
  /\ boot.fresh
  /\ boot.stored # NoKey
  /\ storage = NoKey
  /\ Len(savedIdeas) = 2
  /\ rendered.savedIdeas = <<>>

\* C24 (as claimed): ideas of different requests never share an id, so a
\* generated idea whose id is in the saved list is the very idea that was
\* saved, and 'Already Saved' is answered for no other.
IdNamesOneIdea ==
  /\ \A g \in Range(generatedIdeas) : \A e \in Range(savedIdeas) :
        g.id = e.id => g = e
  /\ toast.title = "Already Saved" =>
        \E g \in Range(rendered.generatedIdeas) : g \in Range(savedIdeas)

\* C25: onSubmit clears the generated list before it calls the provider: the
\* list is empty while a request is in flight, and it is still empty after a
\* request that failed with nothing to salvage.
EarlierResultsNotShown ==
  /\ requests # <<>> => generatedIdeas = <<>>
  /\ (/\ lastDone.valid
      /\ lastDone.result.threw
      /\ ~(Includes(lastDone.result.message, <<"invalid URLs">>)
             /\ lastDone.result.cause.present))
     => generatedIdeas = <<>>

\* a request is in flight, its onSubmit has cleared the list, and the ideas
\* of the request before it are still those of the last render
ClearedWhileEarlierOnScreen ==
  /\ requests # <<>>
  /\ generatedIdeas = <<>>
  /\ rendered.generatedIdeas # <<>>

\* C26: generation and the saved list do not interfere. A step of onSubmit
\* (its start, the call of the provider, a result, a failure, a salvage)
\* leaves the saved list and the stored value alone, and a step of saveIdea
\* or removeSavedIdea leaves the generated list and the busy flag alone.
GenerationAndStoreApart ==
  [][/\ requests' # requests => (savedIdeas' = savedIdeas /\ storage' = storage)
     /\ (savedIdeas' # savedIdeas
           \/ toast'.title \in {"Idea Saved", "Already Saved", "Idea Removed"})
        => (generatedIdeas' = generatedIdeas /\ isLoading' = isLoading
             /\ requests' = requests)]_vars

\* a saved idea has been removed while a request is in flight
RemovedWhileInFlight ==
  /\ lastRemoved.valid
  /\ Len(savedIdeas) < Len(lastRemoved.before)
  /\ requests # <<>>
  /\ isLoading

\* C27: when generateDailyHustleIdeas returns an empty ideas array, onSubmit
\* ends with an empty generated list, the busy flag cleared and no
\* notification; onSubmit notifies only when the result has an unexpected
\* format or an error was thrown.
EmptyResultIsSilent ==
  lastDone.valid =>
     /\ (/\ ~lastDone.result.threw
         /\ lastDone.result.value.isArray
         /\ lastDone.result.value.ideas = <<>>)
        => (generatedIdeas = <<>> /\ ~isLoading /\ lastDone.toast = NoToast)
     /\ lastDone.toast # NoToast
        => (lastDone.result.threw \/ ~lastDone.result.value.isArray)

\* the provider answered with an empty array and the page shows the outcome:
\* no ideas, the button enabled, no notification
EmptyResultShown ==
  /\ lastDone.valid
  /\ lastDone.kind = "ideas"
  /\ lastDone.texts = <<>>
  /\ ~lastDone.result.threw
  /\ dirty = {}
  /\ rendered.generatedIdeas = <<>>
  /\ ~rendered.isLoading
  /\ toast = NoToast

\* C28: the highlighted offer is null while a request is in flight; after a
\* result or a salvage it is one element of the static list; after a failure
\* with nothing to salvage it is null; and 'More Recommended Offers' is the
\* static list without the highlighted offer.
HighlightedOfferFollowsResult ==
  /\ requests # <<>> => highlightedOffer = NoOffer
  /\ lastDone.valid =>
       IF \/ ~lastDone.result.threw /\ lastDone.result.value.isArray
          \/ /\ lastDone.result.threw
             /\ Includes(lastDone.result.message, <<"invalid URLs">>)
             /\ lastDone.result.cause.present
       THEN Cardinality({k \in 1..Len(affiliateLinks) :
                           affiliateLinks[k] = highlightedOffer}) = 1
       ELSE highlightedOffer = NoOffer
  /\ highlightedOffer # NoOffer =>
       LET more == MoreRecommendedOffers(affiliateLinks, highlightedOffer)
       IN /\ highlightedOffer \notin Range(more)
          /\ Range(more) = Range(affiliateLinks) \ {highlightedOffer}
          /\ Len(more) = Len(affiliateLinks) - 1

\* ideas were salvaged from an error and the second offer of the list is
\* highlighted
SalvagedWithOffer ==
  /\ lastDone.valid
  /\ lastDone.result.threw
  /\ generatedIdeas # <<>>
  /\ ~isLoading
  /\ highlightedOffer = affiliateLinks[2]

====
